---------------------------- MODULE Spec2Model ----------------------------
(* A model of the mruby command-line driver, tools/mruby/mruby.c:          *)
(* parse_args, get_outfilename, cleanup and main.  Strings are sequences   *)
(* of one-character strings; a C pointer that may be NULL is a sequence of *)
(* length 0 (NULL) or 1 (the value pointed to).  The engine (mrb_*, mirb)  *)
(* is external: each call is logged in `events` and its result is chosen   *)
(* nondeterministically from the values the call site distinguishes.       *)
EXTENDS Integers, Sequences, FiniteSets, TLC

\* Largest number of command-line tokens after the program name.
MaxArgs == 3

EXIT_SUCCESS == 0
EXIT_FAILURE == 1
kErrNoFunctionName == -2
kErrUnkownLongOption == -3
kErrUnkownOption == -4

NULL == <<>>
Ptr(s) == <<s>>
Deref(p) == p[1]

RITEBIN_EXT == <<".", "m", "r", "b">>
C_EXT == <<".", "c">>
Dash == <<"-">>
DashE == <<"-", "e">>
NL == <<"\n">>

\* The command-line tokens the model draws argument vectors from.
ProgName == <<"m", "r", "u", "b", "y">>
T_b == <<"-", "b">>
T_c == <<"-", "c">>
T_e == <<"-", "e">>
T_ep == <<"-", "e", "p">>
T_v == <<"-", "v">>
T_O == <<"-", "O">>
T_oq == <<"-", "o", "q">>
T_B == <<"-", "B">>
T_Bs == <<"-", "B", "s">>
T_version == <<"-", "-", "v", "e", "r", "s", "i", "o", "n">>
T_verbose == <<"-", "-", "v", "e", "r", "b", "o", "s", "e">>
T_copyright == <<"-", "-", "c", "o", "p", "y", "r", "i", "g", "h", "t">>
T_longbad == <<"-", "-", "x">>
T_Z == <<"-", "Z">>
P_foo_rb == <<"f", "o", "o", ".", "r", "b">>
P_foo == <<"f", "o", "o">>
P_dotdir == <<"d", ".", "d", "/", "f", "o", "o">>

Tokens ==
  { T_b, T_c, T_e, T_ep, T_v, T_O, T_oq, T_B, T_Bs, T_version, T_verbose,
    T_copyright, T_longbad, T_Z, Dash, P_foo_rb, P_foo, P_dotdir }

RECURSIVE SeqsUpTo(_, _)
SeqsUpTo(S, k) ==
  IF k = 0 THEN { <<>> }
  ELSE LET shorter == SeqsUpTo(S, k - 1)
       IN  shorter \cup { Append(s, t) : s \in shorter, t \in S }

ArgVectors == { <<ProgName>> \o s : s \in SeqsUpTo(Tokens, MaxArgs) }

Resources == { "mrb", "rfp", "wfp", "stdout", "cmdline", "argv", "outfile", "ctx" }

VARIABLES
  argv,        \* main's argument vector, argv[1] the program name
  stdinEmpty,  \* fstat(stdin): not a FIFO and of size 0
  pc,          \* position in main / parse_args
  pa,          \* parse_args' locals and its moving argc/argv
  args,        \* struct _args
  n,           \* main's n
  v,           \* main's v, the loader's result
  exc,         \* mrb->exc is set
  c,           \* the mrbc_context, NULL or a record
  ARGV,        \* the array defined as the global constant ARGV
  acq,         \* per resource, how many times it was acquired
  rel,         \* per resource, how many times it was released
  events,      \* the calls made and messages printed, in order
  opened,      \* the fopen calls made, in order
  status       \* the process exit status, once pc = "done"

vars == <<argv, stdinEmpty, pc, pa, args, n, v, exc, c, ARGV, acq, rel,
          events, opened, status>>

env == <<argv, stdinEmpty>>
engine == <<v, exc, c, ARGV>>

args_zero ==
  [ rfp |-> "NULL", wfp |-> "NULL", filename |-> NULL, initname |-> NULL,
    ext |-> NULL, cmdline |-> NULL, fname |-> FALSE, mrbfile |-> FALSE,
    check_syntax |-> FALSE, verbose |-> FALSE, argc |-> 0, argv |-> NULL ]

Init ==
  /\ argv \in ArgVectors
  /\ stdinEmpty \in BOOLEAN
  /\ pc = "start"
  /\ pa = [ argc |-> Len(argv), ai |-> 1, output |-> FALSE, infile |-> NULL,
            outfile |-> NULL, alias |-> FALSE, result |-> 0 ]
  /\ args = args_zero
  /\ n = -1
  /\ v = [ tt |-> "undef", i |-> 0 ]
  /\ exc = FALSE
  /\ c = NULL
  /\ ARGV = <<>>
  /\ acq = [ r \in Resources |-> 0 ]
  /\ rel = [ r \in Resources |-> 0 ]
  /\ events = <<>>
  /\ opened = <<>>
  /\ status = 0

Log(e) == events' = events \o e
Ev(op, detail) == << <<op, detail>> >>
Acquire(r) == acq' = [ acq EXCEPT ![r] = @ + 1 ]
Release(r) == rel' = [ rel EXCEPT ![r] = @ + 1 ]

----------------------------------------------------------------------------
(* get_outfilename *)

StrRChr(s, ch) ==
  LET hits == { k \in 1..Len(s) : s[k] = ch }
  IN  IF hits = {} THEN 0 ELSE CHOOSE k \in hits : \A j \in hits : j <= k

get_outfilename(infile, ext) ==
  IF ext # <<>>
  THEN LET p == StrRChr(infile, ".")
       IN  IF p = 0 THEN infile \o ext ELSE SubSeq(infile, 1, p - 1) \o ext
  ELSE infile

----------------------------------------------------------------------------
(* main, lines 329-340: open the engine and enter parse_args *)

MainOpen ==
  /\ pc = "start"
  /\ \E ok \in BOOLEAN :
       IF ok
       THEN /\ pc' = "loop"
            /\ args' = [ args_zero EXCEPT !.ext = Ptr(RITEBIN_EXT) ]
            /\ pa' = [ pa EXCEPT !.argc = @ - 1, !.ai = @ + 1 ]
            /\ Acquire("mrb")
            /\ Log(Ev("mrb_open0", "ok"))
            /\ status' = status
       ELSE /\ pc' = "done"
            /\ status' = EXIT_FAILURE
            /\ Log(Ev("mrb_open0", "NULL") \o Ev("return", "no_state"))
            /\ UNCHANGED <<args, pa, acq>>
  /\ UNCHANGED <<env, n, engine, rel, opened>>

----------------------------------------------------------------------------
(* parse_args, the option loop, lines 110-199 *)

cur == argv[pa.ai]
InLoop == pc = "loop" /\ pa.argc > 0 /\ cur[1] = "-"
InSwitch(ch) == InLoop /\ Len(cur) > 1 /\ cur[2] = ch
Rest(tok) == SubSeq(tok, 3, Len(tok))
Advance(p) == [ p EXCEPT !.argc = @ - 1, !.ai = @ + 1 ]
Quiet == UNCHANGED <<env, n, engine, rel, opened, status>>

\* the loop condition fails, or the token does not start with '-'
LoopBreak ==
  /\ pc = "loop"
  /\ IF pa.argc > 0 THEN cur[1] # "-" ELSE TRUE
  /\ pc' = "input"
  /\ UNCHANGED <<pa, args, acq, events>>
  /\ Quiet

\* a lone "-": standard input, lines 114-119
LoneDash ==
  /\ InLoop
  /\ Len(cur) <= 1
  /\ pa' = [ Advance(pa) EXCEPT !.infile = Ptr(Dash) ]
  /\ args' = [ args EXCEPT !.filename = Ptr(Dash), !.rfp = "stdin" ]
  /\ pc' = "input"
  /\ UNCHANGED <<acq, events>>
  /\ Quiet

Opt_b ==
  /\ InSwitch("b")
  /\ args' = [ args EXCEPT !.mrbfile = TRUE ]
  /\ pa' = Advance(pa)
  /\ UNCHANGED <<pc, acq, events>>
  /\ Quiet

Opt_c ==
  /\ InSwitch("c")
  /\ args' = [ args EXCEPT !.check_syntax = TRUE ]
  /\ pa' = Advance(pa)
  /\ UNCHANGED <<pc, acq, events>>
  /\ Quiet

\* append_cmdline, lines 137-149
AppendCmdline(item) ==
  IF args.cmdline = NULL
  THEN /\ args' = [ args EXCEPT !.filename = Ptr(DashE), !.cmdline = Ptr(item) ]
       /\ Acquire("cmdline")
  ELSE /\ args' = [ args EXCEPT !.filename = Ptr(DashE),
                                !.cmdline = Ptr(Deref(@) \o NL \o item) ]
       /\ UNCHANGED acq

Opt_e ==
  /\ InSwitch("e")
  /\ IF Len(cur) > 2
     THEN /\ AppendCmdline(Rest(cur))
          /\ pa' = Advance(pa)
          /\ UNCHANGED <<pc, events>>
     ELSE IF pa.argc > 1
     THEN /\ AppendCmdline(argv[pa.ai + 1])
          /\ pa' = Advance(Advance(pa))
          /\ UNCHANGED <<pc, events>>
     ELSE /\ args' = [ args EXCEPT !.filename = Ptr(DashE) ]
          /\ Log(Ev("printf", "No code specified for -e"))
          /\ pc' = "exit"
          /\ UNCHANGED <<pa, acq>>
  /\ Quiet

Opt_v ==
  /\ InSwitch("v")
  /\ args' = [ args EXCEPT !.verbose = TRUE ]
  /\ pa' = Advance(pa)
  /\ Log(Ev("mrb_show_version", "-v"))
  /\ UNCHANGED <<pc, acq>>
  /\ Quiet

Opt_O ==
  /\ InSwitch("O")
  /\ pa' = [ Advance(pa) EXCEPT !.output = TRUE ]
  /\ UNCHANGED <<pc, args, acq, events>>
  /\ Quiet

Opt_o ==
  /\ InSwitch("o")
  /\ pa' = [ Advance(pa) EXCEPT !.outfile = Ptr(get_outfilename(Rest(cur), <<>>)),
                                !.alias = FALSE ]
  /\ Acquire("outfile")
  /\ UNCHANGED <<pc, args, events>>
  /\ Quiet

Opt_B ==
  /\ InSwitch("B")
  /\ args' = [ args EXCEPT !.ext = Ptr(C_EXT), !.initname = Ptr(Rest(cur)) ]
  /\ IF Rest(cur) = <<>>
     THEN /\ Log(Ev("printf", "Function name is not specified."))
          /\ pa' = [ pa EXCEPT !.result = kErrNoFunctionName ]
          /\ pc' = "exit"
     ELSE /\ pa' = Advance(pa)
          /\ UNCHANGED <<pc, events>>
  /\ UNCHANGED acq
  /\ Quiet

\* ExitNow with `goto exit` in place of exit(0): the text is printed and
\* parse_args returns to main
ExitNow_GotoExit(what) ==
  /\ Log(Ev(what, "long"))
  /\ pc' = "exit"
  /\ UNCHANGED <<pa, args, status>>

\* exit(0) out of parse_args, lines 180 and 188: nothing is released
ExitNow(what) ==
  /\ Log(Ev(what, "long") \o Ev("exit", what))
  /\ pc' = "done"
  /\ status' = 0
  /\ UNCHANGED <<pa, args>>

LongOption ==
  /\ InSwitch("-")
  /\ IF Rest(cur) = Rest(T_version)
     THEN ExitNow("mrb_show_version")
     ELSE IF Rest(cur) = Rest(T_verbose)
     THEN /\ args' = [ args EXCEPT !.verbose = TRUE ]
          /\ pa' = Advance(pa)
          /\ UNCHANGED <<pc, events, status>>
     ELSE IF Rest(cur) = Rest(T_copyright)
     THEN ExitNow("mrb_show_copyright")
     ELSE /\ pa' = [ pa EXCEPT !.result = kErrUnkownLongOption ]
          /\ pc' = "exit"
          /\ UNCHANGED <<args, events, status>>
  /\ UNCHANGED <<env, n, engine, acq, rel, opened>>

UnknownOption ==
  /\ InLoop
  /\ Len(cur) > 1
  /\ cur[2] \notin { "b", "c", "e", "v", "O", "o", "B", "-" }
  /\ pa' = [ pa EXCEPT !.result = kErrUnkownOption ]
  /\ pc' = "exit"
  /\ UNCHANGED <<args, acq, events>>
  /\ Quiet

----------------------------------------------------------------------------
(* parse_args after the loop, lines 201-245 *)

\* fopen succeeds or fails as the file system decides; "" names no file
FopenResults(path) == IF path = <<>> THEN { FALSE } ELSE BOOLEAN

\* lines 201-219: choose the input, then copy the remaining arguments
SelectInput ==
  /\ pc = "input"
  /\ IF args.rfp = "NULL" /\ args.cmdline = NULL
     THEN IF pa.ai > Len(argv)
          THEN /\ args' = [ args EXCEPT !.filename = Ptr(Dash), !.rfp = "stdin",
                                        !.argv = Ptr(<<>>), !.argc = pa.argc ]
               /\ pa' = [ pa EXCEPT !.infile = Ptr(Dash) ]
               /\ pc' = "output"
               /\ Acquire("argv")
               /\ UNCHANGED <<events, opened>>
          ELSE \E ok \in FopenResults(cur) :
                 /\ opened' = Append(opened,
                      [ path |-> cur, mode |-> IF args.mrbfile THEN "rb" ELSE "r",
                        ok |-> ok ])
                 /\ IF ok
                    THEN /\ args' = [ args EXCEPT
                                !.filename = Ptr(cur), !.rfp = "file", !.fname = TRUE,
                                !.argv = Ptr(SubSeq(argv, pa.ai + 1, Len(argv))),
                                !.argc = pa.argc - 1 ]
                         /\ pa' = [ Advance(pa) EXCEPT !.infile = Ptr(cur) ]
                         /\ pc' = "output"
                         /\ acq' = [ acq EXCEPT !["rfp"] = @ + 1, !["argv"] = @ + 1 ]
                         /\ UNCHANGED events
                    ELSE /\ args' = [ args EXCEPT !.filename = Ptr(cur) ]
                         /\ pa' = [ pa EXCEPT !.infile = Ptr(cur) ]
                         /\ Log(Ev("printf", "Cannot open program file."))
                         /\ pc' = "exit"
                         /\ UNCHANGED acq
     ELSE /\ args' = [ args EXCEPT !.argv = Ptr(SubSeq(argv, pa.ai, Len(argv))),
                                   !.argc = pa.argc ]
          /\ pc' = "output"
          /\ Acquire("argv")
          /\ UNCHANGED <<pa, events, opened>>
  /\ UNCHANGED <<env, n, engine, rel, status>>

\* lines 222-231: the output file name when -O was given without -o
DefaultOutfile(p) ==
  IF p.output /\ p.outfile = NULL
  THEN IF p.infile = NULL \/ args.cmdline # NULL
       THEN [ p EXCEPT !.outfile = Ptr(Dash), !.infile = Ptr(Dash), !.alias = TRUE ]
       ELSE IF Deref(p.infile) = Dash
       THEN [ p EXCEPT !.outfile = p.infile, !.alias = TRUE ]
       ELSE [ p EXCEPT !.outfile = Ptr(get_outfilename(Deref(p.infile), Deref(args.ext))),
                       !.alias = FALSE ]
  ELSE p

\* lines 221-241: open the output
SelectOutput ==
  /\ pc = "output"
  /\ pc' = "exit"
  /\ IF args.check_syntax
     THEN UNCHANGED <<pa, args, acq, events, opened>>
     ELSE LET p == DefaultOutfile(pa)
              heap == p.outfile # pa.outfile /\ ~p.alias
          IN  IF p.outfile = NULL
              THEN UNCHANGED <<pa, args, acq, events, opened>>
              ELSE IF Deref(p.outfile) = Dash
              THEN /\ pa' = p
                   /\ args' = [ args EXCEPT !.wfp = "stdout" ]
                   /\ UNCHANGED <<acq, events, opened>>
              ELSE \E ok \in FopenResults(Deref(p.outfile)) :
                     /\ opened' = Append(opened,
                          [ path |-> Deref(p.outfile), mode |-> "wb", ok |-> ok ])
                     /\ acq' = [ acq EXCEPT
                                   !["outfile"] = @ + (IF heap THEN 1 ELSE 0),
                                   !["wfp"] = @ + (IF ok THEN 1 ELSE 0) ]
                     /\ IF ok
                        THEN /\ pa' = p
                             /\ args' = [ args EXCEPT !.wfp = "file" ]
                             /\ UNCHANGED events
                        ELSE /\ pa' = [ p EXCEPT !.result = -1 ]
                             /\ Log(Ev("printf", "Cannot open output file."))
                             /\ UNCHANGED args
  /\ UNCHANGED <<env, n, engine, rel, status>>

\* lines 242-244: free the output name unless it is the input name; return 0
ParseExit ==
  /\ pc = "exit"
  /\ IF pa.outfile # NULL /\ ~pa.alias
     THEN Release("outfile")
     ELSE UNCHANGED rel
  /\ n' = 0
  /\ pc' = "main_check"
  /\ UNCHANGED <<env, pa, args, engine, acq, events, opened, status>>

----------------------------------------------------------------------------
(* cleanup, lines 247-259 *)

cleanup_rel(a) ==
  [ r \in Resources |->
      rel[r] + (CASE r = "rfp" -> IF a.rfp \notin { "NULL", "stdin" } THEN 1 ELSE 0
                  [] r = "wfp" -> IF a.wfp = "file" THEN 1 ELSE 0
                  [] r = "stdout" -> IF a.wfp = "stdout" THEN 1 ELSE 0
                  [] r = "cmdline" -> IF a.cmdline # NULL /\ ~a.fname THEN 1 ELSE 0
                  [] r = "argv" -> IF a.argv # NULL THEN 1 ELSE 0
                  [] r = "mrb" -> 1
                  [] OTHER -> 0) ]

cleanup == rel' = cleanup_rel(args)

----------------------------------------------------------------------------
(* main, lines 340-426 *)

\* the values the engine's calls can return, as main tells them apart
MirbResults == { 0, 1 }
ReadIrepResults == { -1, 0, 1 }
DumpResults == { -1, 0 }

\* the exit status of `return x` from main
ExitStatus(x) == x % 256

\* ExcReport with the two calls in the other order
ExcReport_Swapped == Ev("p", "inspect") \o Ev("showcallinfo", "trace")

\* the exception report, lines 376-377 and 415-416
ExcReport == Ev("showcallinfo", "trace") \o Ev("p", "inspect")

\* the condition of line 341
NothingToRun == n < 0 \/ (args.cmdline = NULL /\ args.rfp = "NULL")

\* lines 341-345: nothing to run, print the usage
MainUsage ==
  /\ pc = "main_check"
  /\ NothingToRun
  /\ cleanup
  /\ Log(Ev("cleanup", "usage") \o Ev("usage", "") \o Ev("return", "usage"))
  /\ status' = ExitStatus(n)
  /\ pc' = "done"
  /\ UNCHANGED <<env, pa, args, n, engine, acq, opened>>

\* lines 347-359: the interactive loop on an empty terminal
MainInteractive ==
  /\ pc = "main_check"
  /\ ~NothingToRun
  /\ args.wfp = "NULL" /\ args.rfp = "stdin"
  /\ stdinEmpty
  /\ \E r \in MirbResults :
       /\ n' = r
       /\ status' = ExitStatus(r)
  /\ cleanup
  /\ Log(Ev("mrb_init_libs", "") \o Ev("fstat", "empty") \o Ev("mirb", "")
         \o Ev("cleanup", "mirb") \o Ev("return", "mirb"))
  /\ pc' = "done"
  /\ UNCHANGED <<env, pa, args, engine, acq, opened>>

\* lines 347-365: load the libraries unless compiling, define ARGV
MainDefineARGV ==
  /\ pc = "main_check"
  /\ ~NothingToRun
  /\ ~(args.wfp = "NULL" /\ args.rfp = "stdin" /\ stdinEmpty)
  /\ ARGV' = [ k \in 1..args.argc |-> Deref(args.argv)[k] ]
  /\ Log((IF args.wfp = "NULL" THEN Ev("mrb_init_libs", "") ELSE <<>>)
         \o (IF args.wfp = "NULL" /\ args.rfp = "stdin"
             THEN Ev("fstat", "input") ELSE <<>>)
         \o Ev("mrb_define_global_const", "ARGV"))
  /\ pc' = "dispatch"
  /\ UNCHANGED <<env, pa, args, n, v, exc, c, acq, rel, opened, status>>

\* lines 367-381: load and run a bytecode file
BytecodeMode ==
  /\ pc = "dispatch"
  /\ args.mrbfile
  /\ \E r \in ReadIrepResults :
       IF r < 0
       THEN /\ n' = r
            /\ Log(Ev("mrb_read_irep_file", "failed") \o Ev("fprintf", "failed to load mrb file"))
            /\ UNCHANGED exc
       ELSE IF ~args.check_syntax
       THEN \E raised \in BOOLEAN :
              /\ exc' = raised
              /\ n' = IF raised THEN -1 ELSE 0
              /\ Log(Ev("mrb_read_irep_file", "ok")
                     \o Ev("mrb_run", IF raised THEN "raised" ELSE "ok")
                     \o (IF raised THEN ExcReport ELSE <<>>))
       ELSE /\ n' = r
            /\ Log(Ev("mrb_read_irep_file", "ok"))
            /\ UNCHANGED exc
  /\ pc' = "finish"
  /\ UNCHANGED <<env, pa, args, v, c, ARGV, acq, rel, opened, status>>

\* what mrb_load_file_cxt / mrb_load_string_cxt can leave behind: the value
\* returned, whether mrb->exc is set, and whether the script ran
LoadOutcomes(no_exec) ==
  { [ v |-> [ tt |-> "undef", i |-> 0 ], exc |-> TRUE, how |-> "failed" ],
    [ v |-> [ tt |-> "fixnum", i |-> -1 ], exc |-> TRUE, how |-> "failed" ] }
  \cup
  ( IF no_exec
    THEN { [ v |-> [ tt |-> "fixnum", i |-> k ], exc |-> FALSE, how |-> "compiled" ]
           : k \in { 0, 1 } }
    ELSE { [ v |-> [ tt |-> "object", i |-> 0 ], exc |-> FALSE, how |-> "ran" ],
           [ v |-> [ tt |-> "object", i |-> 0 ], exc |-> TRUE, how |-> "raised" ] } )

mrb_undef_p(x) == x.tt = "undef"
mrb_fixnum(x) == x.i

\* lines 383-399: a fresh context, then load from the file or the command line
SourceLoad ==
  /\ pc = "dispatch"
  /\ ~args.mrbfile
  /\ LET no_exec == args.check_syntax \/ args.wfp # "NULL"
     IN  /\ c' = Ptr([ dump_result |-> args.verbose, no_exec |-> no_exec,
                       filename |-> args.filename ])
         /\ \E o \in LoadOutcomes(no_exec) :
              /\ v' = o.v
              /\ exc' = o.exc
              /\ Log(Ev("mrbc_context_new", "")
                     \o Ev(IF args.rfp # "NULL" THEN "mrb_load_file_cxt"
                           ELSE "mrb_load_string_cxt", o.how))
  /\ Acquire("ctx")
  /\ pc' = "dump"
  /\ UNCHANGED <<env, pa, args, n, ARGV, rel, opened, status>>

\* lines 400-411: write the compiled unit, or give up on a failed load
SourceDump ==
  /\ pc = "dump"
  /\ IF args.wfp # "NULL" /\ ~args.check_syntax
     THEN IF mrb_undef_p(v) \/ mrb_fixnum(v) < 0
          THEN /\ cleanup
               /\ Log(Ev("cleanup", "load_failed") \o Ev("return", "load_failed"))
               /\ status' = EXIT_FAILURE
               /\ pc' = "done"
               /\ UNCHANGED n
          ELSE \E r \in DumpResults :
                 /\ n' = r
                 /\ Log(Ev(IF args.initname # NULL THEN "mrb_bdump_irep"
                           ELSE "mrb_dump_irep", IF r = 0 THEN "ok" ELSE "failed"))
                 /\ pc' = "report"
                 /\ UNCHANGED <<rel, status>>
     ELSE /\ pc' = "report"
          /\ UNCHANGED <<n, rel, events, status>>
  /\ UNCHANGED <<env, pa, args, engine, acq, opened>>

\* lines 412-423: free the context, report a pending exception
SourceReport ==
  /\ pc = "report"
  /\ Release("ctx")
  /\ c' = NULL
  /\ IF exc
     THEN /\ Log(Ev("mrbc_context_free", "")
                 \o (IF ~mrb_undef_p(v) THEN ExcReport ELSE <<>>))
          /\ n' = -1
     ELSE /\ Log(Ev("mrbc_context_free", "")
                 \o (IF args.check_syntax THEN Ev("printf", "Syntax OK") ELSE <<>>))
          /\ UNCHANGED n
  /\ pc' = "finish"
  /\ UNCHANGED <<env, pa, args, v, exc, ARGV, acq, opened, status>>

\* lines 424-426
Finish ==
  /\ pc = "finish"
  /\ cleanup
  /\ Log(Ev("cleanup", "end") \o Ev("return", "end"))
  /\ status' = IF n = 0 THEN EXIT_SUCCESS ELSE EXIT_FAILURE
  /\ pc' = "done"
  /\ UNCHANGED <<env, pa, args, n, engine, acq, opened>>

----------------------------------------------------------------------------

Next ==
  \/ MainOpen
  \/ LoopBreak
  \/ LoneDash
  \/ Opt_b
  \/ Opt_c
  \/ Opt_e
  \/ Opt_v
  \/ Opt_O
  \/ Opt_o
  \/ Opt_B
  \/ LongOption
  \/ UnknownOption
  \/ SelectInput
  \/ SelectOutput
  \/ ParseExit
  \/ MainUsage
  \/ MainInteractive
  \/ MainDefineARGV
  \/ BytecodeMode
  \/ SourceLoad
  \/ SourceDump
  \/ SourceReport
  \/ Finish

Spec == Init /\ [][Next]_vars

----------------------------------------------------------------------------
(* What the properties below read off a state *)

Done == pc = "done"
Called(op) == \E k \in DOMAIN events : events[k][1] = op
Happened(op, detail) == \E k \in DOMAIN events : events[k] = <<op, detail>>
IndexOf(op) == CHOOSE k \in DOMAIN events : events[k][1] = op
Last(s) == s[Len(s)]

EngineCalls ==
  { "mrb_read_irep_file", "mrb_load_file_cxt", "mrb_load_string_cxt", "mrb_run",
    "mrb_dump_irep", "mrb_bdump_irep" }
LoadCalls == { "mrb_read_irep_file", "mrb_load_file_cxt", "mrb_load_string_cxt" }
NoEngineCall(ev) == \A k \in DOMAIN ev : ev[k][1] \notin EngineCalls

\* parse_args saw an unknown option or -B without a name
ArgError ==
  pa.result \in { kErrNoFunctionName, kErrUnkownLongOption, kErrUnkownOption }
\* parse_args could not open the script or the output file
OpenError == \E k \in DOMAIN opened : ~opened[k].ok

\* the script was run: by mrb_run, or inside the source loader
Executed ==
  \E k \in DOMAIN events :
    \/ events[k][1] = "mrb_run"
    \/ events[k][1] \in LoadCalls /\ events[k][2] \in { "ran", "raised" }
\* ... and left an exception pending
Raised ==
  \E k \in DOMAIN events :
    events[k][1] \in { "mrb_run" } \cup LoadCalls /\ events[k][2] = "raised"
RaisedAt ==
  CHOOSE k \in DOMAIN events :
    events[k][1] \in { "mrb_run" } \cup LoadCalls /\ events[k][2] = "raised"
\* the input was loaded without error
Loaded ==
  \E k \in DOMAIN events :
    events[k][1] \in LoadCalls /\ events[k][2] \in { "ok", "compiled", "ran" }
DumpFailed ==
  \E k \in DOMAIN events :
    events[k][1] \in { "mrb_dump_irep", "mrb_bdump_irep" } /\ events[k][2] = "failed"
Printing == { "printf", "fprintf", "p", "usage", "showcallinfo" }

----------------------------------------------------------------------------
\* C1: whenever parse_args detected an argument error (unknown short or long
\* option, -B without a name) or could not open the script or the output
\* file, the exit status of the process is nonzero.
C1_ErrorExitsNonzero == (Done /\ (ArgError \/ OpenError)) => status # 0

\* C2: once parse_args has detected an argument error or a failure to open
\* the input or the output file, main makes no engine load, compile, run or
\* dump call.
C2_ErrorIsTerminal == (ArgError \/ OpenError) => NoEngineCall(events)

\* C3: when the input loaded without error, no exception is pending and no
\* dump failed, main returns EXIT_SUCCESS, in source mode and in bytecode mode,
\* whatever the loader returned on success.
C3_CleanRunSucceeds ==
  (Done /\ Loaded /\ ~exc /\ ~DumpFailed) => status = EXIT_SUCCESS

\* C4: when running the script left an exception pending, the trace is the
\* first thing printed after the run, the inspected exception follows it
\* directly, cleanup comes after both, and the exit status is nonzero.
C4_ExceptionReported ==
  (Done /\ Raised) =>
    /\ status # 0
    /\ Called("showcallinfo")
    /\ LET t == IndexOf("showcallinfo")
       IN  /\ RaisedAt < t
           /\ \A k \in (RaisedAt + 1)..(t - 1) : events[k][1] \notin Printing
           /\ t < Len(events)
           /\ events[t + 1] = <<"p", "inspect">>
           /\ \E m \in (t + 2)..Len(events) : events[m][1] = "cleanup"
           /\ \A m \in 1..(t + 1) : events[m][1] # "cleanup"

C4_Witness ==
  /\ Done
  /\ Happened("mrb_load_string_cxt", "raised")
  /\ Happened("p", "inspect")
  /\ status = EXIT_FAILURE

\* C5: when main reaches the execution dispatch, exactly one of args.rfp and
\* args.cmdline is non-NULL.
C5_ExactlyOneInput ==
  pc = "dispatch" => ((args.rfp # "NULL") # (args.cmdline # NULL))

\* the resources the driver must release
ClaimedResources == { "rfp", "wfp", "ctx", "cmdline" }
\* C6: when the process has exited, the input file, the output file, the
\* compilation context and the inline-command buffer have each been released
\* as many times as they were acquired, which is at most once.
C6_ReleasedExactlyOnce ==
  Done => \A r \in ClaimedResources : acq[r] <= 1 /\ rel[r] = acq[r]

\* the path with the final extension of its file name replaced by ext
ReplaceExt(path, ext) ==
  LET slash == StrRChr(path, "/")
      dot == StrRChr(path, ".")
  IN  IF dot > slash THEN SubSeq(path, 1, dot - 1) \o ext ELSE path \o ext
\* with a script file taken, argv[2 .. pa.ai - 2] are the flags before it
FlagGiven(ch) == \E j \in 2..(pa.ai - 2) : argv[j][2] = ch
\* C7: with -O, no -o and no -c, and a script file as the input, the path
\* opened for writing is the input path with the final extension of its file
\* name replaced by the output extension (appended when the file name has
\* none): ".c" when -B<symbol> is among the flags, else ".mrb".
C7_DerivedOutputPath ==
  (args.fname /\ FlagGiven("O") /\ ~FlagGiven("o") /\ ~FlagGiven("c")) =>
    \A k \in DOMAIN opened :
      opened[k].mode = "wb" =>
        opened[k].path =
          ReplaceExt(Deref(args.filename),
                     IF FlagGiven("B") THEN C_EXT ELSE RITEBIN_EXT)

\* C8: whatever the flags, with no script file and no inline command (the
\* input is standard input), an empty non-pipe standard input makes main call mirb and no batch
\* load, run or dump; and mirb is never called when a script file or an
\* inline command was given.
C8_InteractiveOnEmptyStdin ==
  Done =>
    /\ (args.rfp = "stdin" /\ args.cmdline = NULL /\ stdinEmpty) =>
         (Called("mirb") /\ NoEngineCall(events))
    /\ Called("mirb") => (~args.fname /\ args.cmdline = NULL)

\* where flag parsing stops in av, and whether a -e flag came before
RECURSIVE ScanFlags(_, _, _)
ScanFlags(av, k, inline) ==
  IF k > Len(av) \/ av[k][1] # "-" \/ av[k] = Dash
  THEN [ stop |-> k, inline |-> inline ]
  ELSE IF av[k] = T_e THEN ScanFlags(av, k + 2, TRUE)
  ELSE ScanFlags(av, k + 1, inline \/ av[k][2] = "e")
TrailingTokens(av) ==
  LET s == ScanFlags(av, 2, FALSE)
  IN  IF s.stop <= Len(av) /\ av[s.stop] = Dash THEN SubSeq(av, s.stop + 1, Len(av))
      ELSE IF s.inline THEN SubSeq(av, s.stop, Len(av))
      ELSE SubSeq(av, s.stop + 1, Len(av))
\* C9: when the script is executed, ARGV is exactly the tokens after the stop
\* point of flag parsing: after the script file name, after the lone "-", or
\* all that remain when the script came from -e.
C9_ARGVIsTrailingTokens == Executed => ARGV = TrailingTokens(argv)

\* the option loop is at a --version or --copyright token
AtVersionOrCopyright ==
  pc = "loop" /\ pa.argc > 0 /\ cur \in { T_version, T_copyright }
\* C10: when the parser reaches --version or --copyright, the next step prints
\* the text and ends the process with status 0, no file has been opened and
\* no engine load or run call has been made.
C10_VersionExitsAtOnce ==
  [][ AtVersionOrCopyright =>
        /\ pc' = "done"
        /\ status' = 0
        /\ opened' = <<>>
        /\ NoEngineCall(events')
        /\ Len(events') = Len(events) + 2
        /\ events'[Len(events) + 1][1] =
             (IF cur = T_version THEN "mrb_show_version" ELSE "mrb_show_copyright")
        /\ Last(events')[1] = "exit" ]_vars

C10_Witness ==
  /\ Done
  /\ Last(events) = <<"exit", "mrb_show_copyright">>
  /\ args.cmdline # NULL
  /\ args.mrbfile
  /\ status = 0

=============================================================================
